---- MODULE Spec2Model ----
(***************************************************************************)
(* bind_exporter: one scrape cycle (Exporter.Collect) of the BIND          *)
(* statistics exporter, with the functions it is built from.               *)
(*                                                                         *)
(* Strings are TLA+ strings (Len, \o and SubSeq act on them as on Go       *)
(* strings).  A float64 bucket bound is the pair <<n, d>> standing for     *)
(* n/d, with <<1, 0>> for +Inf.  Counter values stay far below 2^64, so    *)
(* the uint64 sums of the histogram builders do not wrap.                  *)
(***************************************************************************)
EXTENDS Integers, Sequences, FiniteSets, TLC

VARIABLES
    version,    \* Exporter.version, the cached generation ("" when unset)
    URI,        \* Exporter.URI
    metrics,    \* Exporter.metrics, the configured metric groups
    scrapers,   \* the goroutines on which the registry runs Collect
    pc,         \* per scrape: where Collect stands
    ver,        \* per scrape: the generation GetVersion returned
    gi,         \* per scrape: FetchV3's position in e.metrics
    root3,      \* per scrape: FetchV3's accumulated BindRootV3
    snap,       \* per scrape: the root handed to UpdateV2 / UpdateV3
    reqs,       \* per scrape: the URIs requested, in order
    resps,      \* per scrape: what the server answered, in order
    dedupRan,   \* per scrape: whether root.dedup() was called
    warns,      \* per scrape: number of "Error parsing RTT" warnings logged
    ch,         \* per scrape: the metrics sent on Collect's channel
    hstats,     \* histogram builders: the counter list given
    hpos,       \* histogramV2: counters consumed so far
    h2,         \* histogramV2: buckets, count, err so far
    h3,         \* histogramV3: the result
    ubase,      \* GetV3URI: the base URI tried
    ugroup,     \* GetV3URI: the group tried
    ures        \* GetV3URI: the results for ubase and for ubase + "/"

cycleVars == <<version, URI, metrics, scrapers, pc, ver, gi, root3, snap, reqs, resps,
               dedupRan, warns, ch>>
histVars == <<hstats, hpos, h2, h3>>
uriVars == <<ubase, ugroup, ures>>
vars == <<cycleVars, histVars, uriVars>>

----------------------------------------------------------------------------
(* Go's strings package, as the exporter uses it. *)

HasPrefix(s, prefix) ==
    Len(s) >= Len(prefix) /\ SubSeq(s, 1, Len(prefix)) = prefix

HasSuffix(s, suffix) ==
    Len(s) >= Len(suffix) /\ SubSeq(s, Len(s) - Len(suffix) + 1, Len(s)) = suffix

TrimPrefix(s, prefix) ==
    IF HasPrefix(s, prefix) THEN SubSeq(s, Len(prefix) + 1, Len(s)) ELSE s

namespace == "bind"
resolver == "resolver"
qryRTT == "QryRTT"

\* prometheus.BuildFQName: the non-empty parts joined by "_".
BuildFQName(ns, subsystem, name) ==
    IF name = "" THEN ""
    ELSE IF ns # "" /\ subsystem # "" THEN ns \o "_" \o subsystem \o "_" \o name
    ELSE IF ns # "" THEN ns \o "_" \o name
    ELSE IF subsystem # "" THEN subsystem \o "_" \o name
    ELSE name

NewDesc(fqName, labels) == [fqName |-> fqName, variableLabels |-> labels]

----------------------------------------------------------------------------
(* The metric descriptors and the name tables. *)

up == NewDesc(BuildFQName(namespace, "", "up"), <<>>)
incomingQueries == NewDesc(BuildFQName(namespace, "", "incoming_queries_total"), <<"type">>)
incomingRequests == NewDesc(BuildFQName(namespace, "", "incoming_requests_total"), <<"name">>)
resolverCache == NewDesc(BuildFQName(namespace, resolver, "cache_rrsets"), <<"view", "type">>)
resolverQueries == NewDesc(BuildFQName(namespace, resolver, "queries_total"), <<"view", "type">>)
resolverQueryDuration == NewDesc(BuildFQName(namespace, resolver, "query_duration_seconds"), <<"view">>)
resolverQueryErrors == NewDesc(BuildFQName(namespace, resolver, "query_errors_total"), <<"view", "error">>)
resolverResponseErrors == NewDesc(BuildFQName(namespace, resolver, "response_errors_total"), <<"view", "error">>)
resolverDNSSECSucess == NewDesc(BuildFQName(namespace, resolver, "dnssec_validation_success_total"), <<"view", "result">>)

resolverMetricStats ==
    ("Lame" :> NewDesc(BuildFQName(namespace, resolver, "response_lame_total"), <<"view">>))
    @@ ("EDNS0Fail" :> NewDesc(BuildFQName(namespace, resolver, "query_edns0_errors_total"), <<"view">>))
    @@ ("Mismatch" :> NewDesc(BuildFQName(namespace, resolver, "response_mismatch_total"), <<"view">>))
    @@ ("Retry" :> NewDesc(BuildFQName(namespace, resolver, "query_retries_total"), <<"view">>))
    @@ ("Truncated" :> NewDesc(BuildFQName(namespace, resolver, "response_truncated_total"), <<"view">>))
    @@ ("ValFail" :> NewDesc(BuildFQName(namespace, resolver, "dnssec_validation_errors_total"), <<"view">>))

resolverLabelStats ==
    ("QueryAbort" :> resolverQueryErrors)
    @@ ("QuerySockFail" :> resolverQueryErrors)
    @@ ("QueryTimeout" :> resolverQueryErrors)
    @@ ("NXDOMAIN" :> resolverResponseErrors)
    @@ ("SERVFAIL" :> resolverResponseErrors)
    @@ ("FORMERR" :> resolverResponseErrors)
    @@ ("OtherError" :> resolverResponseErrors)
    @@ ("ValOk" :> resolverDNSSECSucess)
    @@ ("ValNegOk" :> resolverDNSSECSucess)

serverQueryErrors == NewDesc(BuildFQName(namespace, "", "query_errors_total"), <<"error">>)
serverReponses == NewDesc(BuildFQName(namespace, "", "responses_total"), <<"result">>)

serverLabelStats ==
    ("QryDuplicate" :> serverQueryErrors)
    @@ ("QryDropped" :> serverQueryErrors)
    @@ ("QryFailure" :> serverQueryErrors)
    @@ ("QrySuccess" :> serverReponses)
    @@ ("QryReferral" :> serverReponses)
    @@ ("QryNxrrset" :> serverReponses)
    @@ ("QrySERVFAIL" :> serverReponses)
    @@ ("QryFORMERR" :> serverReponses)
    @@ ("QryNXDOMAIN" :> serverReponses)

tasksRunning == NewDesc(BuildFQName(namespace, "", "tasks_running"), <<>>)
workerThreads == NewDesc(BuildFQName(namespace, "", "worker_threads"), <<>>)

\* The descriptors Describe sends on its channel.
Describe ==
    {up, incomingQueries, incomingRequests, resolverDNSSECSucess, resolverQueries,
     resolverQueryDuration, resolverQueryErrors, resolverResponseErrors}
    \cup {resolverMetricStats[k] : k \in DOMAIN resolverMetricStats}
    \cup {serverReponses, tasksRunning, workerThreads}

----------------------------------------------------------------------------
(* GetV3URI.  The base URI is never empty here: on an empty e.URI the     *)
(* index e.URI[len(e.URI)-1] panics.                                       *)

GetV3URI_AlwaysSlash(base, metric) == base \o "/xml/v3/" \o metric

GetV3URI(base, metric) ==
    IF SubSeq(base, Len(base), Len(base)) = "/"
    THEN base \o "xml/v3/" \o metric
    ELSE base \o "/xml/v3/" \o metric

----------------------------------------------------------------------------
(* strconv.ParseFloat(rrt, 32) on the suffixes BIND's bucket names carry:   *)
(* a non-empty run of decimal digits parses to its value (exact in a       *)
(* float32 below 2^24); the empty string and any string holding another    *)
(* character of the model's names (a letter) is a syntax error.            *)

DigitVal ==
    ("0" :> 0) @@ ("1" :> 1) @@ ("2" :> 2) @@ ("3" :> 3) @@ ("4" :> 4)
    @@ ("5" :> 5) @@ ("6" :> 6) @@ ("7" :> 7) @@ ("8" :> 8) @@ ("9" :> 9)

ParseFloatOK(s) ==
    s # "" /\ \A i \in 1..Len(s) : SubSeq(s, i, i) \in DOMAIN DigitVal

ParseFloat(s) ==
    LET f[i \in 0..Len(s)] ==
            IF i = 0 THEN 0 ELSE 10 * f[i - 1] + DigitVal[SubSeq(s, i, i)]
    IN  <<f[Len(s)], 1>>

Inf == <<1, 0>>

\* b/1000 on a float64: +Inf stays +Inf.
Div1000(b) == IF b[2] = 0 THEN b ELSE <<b[1], b[2] * 1000>>

\* a < b on float64 bounds
Float64Less(a, b) == a[1] * b[2] < b[1] * a[2]

\* an empty Go map
NoBuckets == [b \in {} |-> 0]

\* buckets[b] = v on a Go map
MapSet(buckets, b, v) == (b :> v) @@ buckets

----------------------------------------------------------------------------
(* histogramV2: one pass over the counters, a running sum in input order. *)

histogramV2Step_NoSum(acc, s) ==
    IF acc.err # "" \/ ~HasPrefix(s.Name, qryRTT) THEN acc
    ELSE IF HasSuffix(s.Name, "+")
    THEN [acc EXCEPT !.buckets = MapSet(acc.buckets, Div1000(Inf), s.Counter),
                     !.count = acc.count + s.Counter]
    ELSE LET rrt == TrimPrefix(s.Name, qryRTT) IN
         IF ~ParseFloatOK(rrt)
         THEN [buckets |-> acc.buckets, count |-> 0,
               err |-> "could not parse RTT: " \o rrt]
         ELSE [acc EXCEPT !.buckets = MapSet(acc.buckets, Div1000(ParseFloat(rrt)), s.Counter),
                          !.count = acc.count + s.Counter]

\* The body of histogramV2's loop for counter s; acc holds buckets, count and
\* the error returned ("" for nil: after a return the loop runs no more).
histogramV2Step(acc, s) ==
    IF acc.err # "" \/ ~HasPrefix(s.Name, qryRTT) THEN acc
    ELSE IF HasSuffix(s.Name, "+")
    THEN [acc EXCEPT !.buckets = MapSet(acc.buckets, Div1000(Inf), acc.count + s.Counter),
                     !.count = acc.count + s.Counter]
    ELSE LET rrt == TrimPrefix(s.Name, qryRTT) IN
         IF ~ParseFloatOK(rrt)
         THEN [buckets |-> acc.buckets, count |-> 0,
               err |-> "could not parse RTT: " \o rrt]
         ELSE [acc EXCEPT !.buckets = MapSet(acc.buckets, Div1000(ParseFloat(rrt)),
                                             acc.count + s.Counter),
                          !.count = acc.count + s.Counter]

HistStart == [buckets |-> NoBuckets, count |-> 0, err |-> ""]

histogramV2(stats) ==
    LET f[i \in 0..Len(stats)] ==
            IF i = 0 THEN HistStart ELSE histogramV2Step(f[i - 1], stats[i])
    IN  f[Len(stats)]

----------------------------------------------------------------------------
(* histogramV3: raw counts per bound first, then the bounds sorted and the *)
(* counts summed along them.                                               *)

\* The first loop's body: buckets[b/1000] = uint64(s.Counter).
histogramV3Collect(acc, s) ==
    IF acc.err # "" \/ ~HasPrefix(s.Name, qryRTT) THEN acc
    ELSE IF HasSuffix(s.Name, "+")
    THEN [acc EXCEPT !.buckets = MapSet(acc.buckets, Div1000(Inf), s.Counter)]
    ELSE LET rrt == TrimPrefix(s.Name, qryRTT) IN
         IF ~ParseFloatOK(rrt)
         THEN [buckets |-> acc.buckets, count |-> 0,
               err |-> "could not parse RTT: " \o rrt]
         ELSE [acc EXCEPT !.buckets = MapSet(acc.buckets, Div1000(ParseFloat(rrt)), s.Counter)]

\* sort.Float64s on the keys of a map (distinct, none NaN): ascending.
RECURSIVE SortFloat64s(_)
SortFloat64s(keys) ==
    IF keys = {} THEN <<>>
    ELSE LET m == CHOOSE x \in keys : \A y \in keys : ~Float64Less(y, x)
         IN  <<m>> \o SortFloat64s(keys \ {m})

\* histogramV3 with the running sum taken in input order, as histogramV2 does.
histogramV3_InputOrder(counters) == histogramV2(counters)

histogramV3(counters) ==
    LET c[i \in 0..Len(counters)] ==
            IF i = 0 THEN HistStart ELSE histogramV3Collect(c[i - 1], counters[i])
        raw == c[Len(counters)]
        keys == SortFloat64s(DOMAIN raw.buckets)
        s[i \in 0..Len(keys)] ==
            IF i = 0 THEN [buckets |-> raw.buckets, count |-> 0, err |-> ""]
            ELSE LET count == s[i - 1].count + s[i - 1].buckets[keys[i]]
                 IN  [buckets |-> MapSet(s[i - 1].buckets, keys[i], count),
                      count |-> count, err |-> ""]
    IN  IF raw.err # "" THEN raw ELSE s[Len(keys)]

----------------------------------------------------------------------------
(* The metrics a scrape sends, from prometheus.MustNewConstMetric and      *)
(* MustNewConstHistogram.  A metric is its descriptor, its value type, its *)
(* value, its label values and its buckets: a gauge or counter has no      *)
(* bucket, a histogram has its sample count for value (its sum is always   *)
(* NaN and is left out).                                                   *)

MustNewConstMetric(desc, valueType, value, labelValues) ==
    [desc |-> desc, valueType |-> valueType, value |-> value,
     buckets |-> NoBuckets, labelValues |-> labelValues]

MustNewConstHistogram(desc, count, buckets, labelValues) ==
    [desc |-> desc, valueType |-> "HistogramValue", value |-> count,
     buckets |-> buckets, labelValues |-> labelValues]

\* for _, x := range s { ch <- F(x)... }: what the loop sends, in order
Range(F(_), s) ==
    LET f[i \in 0..Len(s)] == IF i = 0 THEN <<>> ELSE f[i - 1] \o F(s[i])
    IN  f[Len(s)]

\* The nsstat loop with the counter's name sent unchanged as the label.
NsStatMetrics_NoTrim(counters) ==
    LET one(s) ==
            IF s.Name \in DOMAIN serverLabelStats
            THEN << MustNewConstMetric(serverLabelStats[s.Name], "CounterValue",
                                       s.Counter, <<s.Name>>) >>
            ELSE <<>>
    IN  Range(one, counters)

\* The loop over the name-server operational counters (UpdateV2 and UpdateV3
\* run the same body).
NsStatMetrics(counters) ==
    LET one(s) ==
            IF s.Name \in DOMAIN serverLabelStats
            THEN << MustNewConstMetric(serverLabelStats[s.Name], "CounterValue",
                                       s.Counter, <<TrimPrefix(s.Name, "Qry")>>) >>
            ELSE <<>>
    IN  Range(one, counters)

\* The loop over a view's resolver-operation counters: both tables are tried.
ResStatMetrics(viewName, counters) ==
    LET one(s) ==
            (IF s.Name \in DOMAIN resolverMetricStats
             THEN << MustNewConstMetric(resolverMetricStats[s.Name], "CounterValue",
                                        s.Counter, <<viewName>>) >>
             ELSE <<>>)
            \o
            (IF s.Name \in DOMAIN resolverLabelStats
             THEN << MustNewConstMetric(resolverLabelStats[s.Name], "CounterValue",
                                        s.Counter, <<viewName, s.Name>>) >>
             ELSE <<>>)
    IN  Range(one, counters)

\* if buckets, count, err := histogram(...); err == nil { ch <- ... } else { log.Warn }
HistogramMetric(viewName, h) ==
    IF h.err = ""
    THEN << MustNewConstHistogram(resolverQueryDuration, h.count, h.buckets, <<viewName>>) >>
    ELSE <<>>

TaskmgrMetrics(threadModel) ==
    << MustNewConstMetric(tasksRunning, "GaugeValue", threadModel.TasksRunning, <<>>),
       MustNewConstMetric(workerThreads, "GaugeValue", threadModel.WorkerThreads, <<>>) >>

\* UpdateV2's body for one view.
ViewV2(v) ==
    LET cache(s) == << MustNewConstMetric(resolverCache, "GaugeValue", s.Counter,
                                          <<v.Name, s.Name>>) >>
        rdtype(s) == << MustNewConstMetric(resolverQueries, "CounterValue", s.Counter,
                                           <<v.Name, s.Name>>) >>
    IN  Range(cache, v.Cache) \o Range(rdtype, v.Rdtype)
        \o ResStatMetrics(v.Name, v.Resstat)
        \o HistogramMetric(v.Name, histogramV2(v.Resstat))

\* UpdateV2 with a return in place of the warning: the views before the one
\* whose histogram does not parse are sent, that view without its histogram,
\* and nothing after it.
UpdateV2_ReturnOnError(root) ==
    LET stats == root.Bind.Statistics
        qin(s) == << MustNewConstMetric(incomingQueries, "CounterValue", s.Counter,
                                        <<s.Name>>) >>
        req(s) == << MustNewConstMetric(incomingRequests, "CounterValue", s.Counter,
                                        <<s.Name>>) >>
        f[i \in 0..Len(stats.Views)] ==
            IF i = 0 THEN [out |-> <<>>, returned |-> FALSE]
            ELSE IF f[i - 1].returned THEN f[i - 1]
            ELSE [out |-> f[i - 1].out \o ViewV2(stats.Views[i]),
                  returned |-> histogramV2(stats.Views[i].Resstat).err # ""]
        views == f[Len(stats.Views)]
    IN  Range(qin, stats.Server.QueriesIn.Rdtype)
        \o Range(req, stats.Server.Requests.Opcode)
        \o NsStatMetrics(stats.Server.NsStats)
        \o views.out
        \o (IF views.returned THEN <<>> ELSE TaskmgrMetrics(stats.Taskmgr.ThreadModel))

\* What UpdateV2 sends on the channel for a BindRootV2, in order.
UpdateV2(root) ==
    LET stats == root.Bind.Statistics
        qin(s) == << MustNewConstMetric(incomingQueries, "CounterValue", s.Counter,
                                        <<s.Name>>) >>
        req(s) == << MustNewConstMetric(incomingRequests, "CounterValue", s.Counter,
                                        <<s.Name>>) >>
    IN  Range(qin, stats.Server.QueriesIn.Rdtype)
        \o Range(req, stats.Server.Requests.Opcode)
        \o NsStatMetrics(stats.Server.NsStats)
        \o Range(ViewV2, stats.Views)
        \o TaskmgrMetrics(stats.Taskmgr.ThreadModel)

\* The "Error parsing RTT" warnings UpdateV2 logs.
WarnsV2(root) ==
    Cardinality({i \in 1..Len(root.Bind.Statistics.Views) :
                    histogramV2(root.Bind.Statistics.Views[i].Resstat).err # ""})

\* UpdateV3's body for one group of server counters.
ServerCountersV3(counters) ==
    LET qtype(c) == << MustNewConstMetric(incomingQueries, "CounterValue", c.Counter,
                                          <<c.Name>>) >>
        opcode(c) == << MustNewConstMetric(incomingRequests, "CounterValue", c.Counter,
                                           <<c.Name>>) >>
    IN  IF counters.Type = "qtype" THEN Range(qtype, counters.Counter)
        ELSE IF counters.Type = "opcode" THEN Range(opcode, counters.Counter)
        ELSE IF counters.Type = "nsstat" THEN NsStatMetrics(counters.Counter)
        ELSE <<>>

\* UpdateV3's body for one counter group of view v.
ViewCountersV3(v, c) ==
    LET resq(s) == << MustNewConstMetric(resolverQueries, "CounterValue", s.Counter,
                                         <<v.Name, s.Name>>) >>
    IN  (IF c.Type = "resqtype" THEN Range(resq, c.Counter) ELSE <<>>)
        \o
        (IF c.Type = "resstats"
         THEN ResStatMetrics(v.Name, c.Counter)
              \o HistogramMetric(v.Name, histogramV3(c.Counter))
         ELSE <<>>)

\* UpdateV3's body for one view.
ViewV3(v) ==
    LET cache(s) == << MustNewConstMetric(resolverCache, "GaugeValue", s.Counter,
                                          <<v.Name, s.Name>>) >>
        group(c) == ViewCountersV3(v, c)
    IN  Range(cache, v.Cache) \o Range(group, v.Counters)

\* What UpdateV3 sends on the channel for a BindRootV3, in order.
UpdateV3(root) ==
    Range(ServerCountersV3, root.Server.Counters)
    \o Range(ViewV3, root.Views)
    \o TaskmgrMetrics(root.Taskmgr.ThreadModel)

\* The "Error parsing RTT" warnings UpdateV3 logs.
WarnsV3(root) ==
    LET bad(v) == Cardinality({i \in 1..Len(v.Counters) :
                                  /\ v.Counters[i].Type = "resstats"
                                  /\ histogramV3(v.Counters[i].Counter).err # ""})
        f[i \in 0..Len(root.Views)] == IF i = 0 THEN 0 ELSE f[i - 1] + bad(root.Views[i])
    IN  f[Len(root.Views)]

----------------------------------------------------------------------------
(* BindRootV3, xml.Unmarshal into it and its dedup method.  Their source   *)
(* is not among the files at hand; they follow the design's description:   *)
(* each parse adds what the group's document holds to the accumulator, and *)
(* dedup leaves one counter per (type, name[, view]), the last value seen. *)

BindRootV3 ==
    [Server |-> [Counters |-> <<>>], Views |-> <<>>,
     Taskmgr |-> [ThreadModel |-> [TasksRunning |-> 0, WorkerThreads |-> 0]]]

\* doc.Taskmgr is <<>> when the document has no task-manager element.
UnmarshalV3(root, doc) ==
    [Server |-> [Counters |-> root.Server.Counters \o doc.Server.Counters],
     Views |-> root.Views \o doc.Views,
     Taskmgr |-> IF doc.Taskmgr = <<>> THEN root.Taskmgr ELSE doc.Taskmgr[1]]

\* The positions of s that hold the first element with their key.
FirstOf(Key(_), s) ==
    {i \in 1..Len(s) : \A j \in 1..(i - 1) : Key(s[j]) # Key(s[i])}

\* The elements of s at the positions in P, in order.
RECURSIVE Pick(_, _, _)
Pick(s, P, i) ==
    IF i > Len(s) THEN <<>>
    ELSE (IF i \in P THEN <<s[i]>> ELSE <<>>) \o Pick(s, P, i + 1)

DedupCounters(cs) ==
    LET name(c) == c.Name
        last(n) == cs[CHOOSE i \in 1..Len(cs) :
                        /\ cs[i].Name = n
                        /\ \A j \in (i + 1)..Len(cs) : cs[j].Name # n]
        one(c) == << last(c.Name) >>
    IN  Range(one, Pick(cs, FirstOf(name, cs), 1))

DedupGroups(groups) ==
    LET type(g) == g.Type
        all(ty) == LET sel(g) == IF g.Type = ty THEN g.Counter ELSE <<>>
                   IN  Range(sel, groups)
        one(g) == << [Type |-> g.Type, Counter |-> DedupCounters(all(g.Type))] >>
    IN  Range(one, Pick(groups, FirstOf(type, groups), 1))

dedup(root) ==
    LET name(v) == v.Name
        cache(n) == LET sel(v) == IF v.Name = n THEN v.Cache ELSE <<>>
                    IN  Range(sel, root.Views)
        groups(n) == LET sel(v) == IF v.Name = n THEN v.Counters ELSE <<>>
                     IN  Range(sel, root.Views)
        one(v) == << [Name |-> v.Name, Cache |-> DedupCounters(cache(v.Name)),
                      Counters |-> DedupGroups(groups(v.Name))] >>
    IN  [Server |-> [Counters |-> DedupGroups(root.Server.Counters)],
         Views |-> Range(one, Pick(root.Views, FirstOf(name, root.Views), 1)),
         Taskmgr |-> root.Taskmgr]

----------------------------------------------------------------------------
(* What the BIND server may answer: the documents of both generations,     *)
(* built from a few counter lists.  View names are unique in a document.   *)

MaxViews == 2

C(name, n) == [Name |-> name, Counter |-> n]

ViewNames == <<"_default", "_bind", "chaos", "v4", "v5", "v6">>

NsStatLists ==
    { <<>>,
      << C("QrySuccess", 10) >>,
      << C("QrySuccess", 10), C("QryAuthAns", 4), C("QryDropped", 2), C("Lame", 1) >> }

\* Resolver-operation lists: buckets in ascending order; a bucket name whose
\* suffix does not parse; buckets out of order; no bucket at all.
ResstatLists ==
    { << C("QryRTT10", 5), C("QryRTT100", 3), C("QryRTT100+", 2) >>,
      << C("Lame", 1), C("QueryTimeout", 2), C("QryRTT10", 5), C("QryRTT1a", 4) >>,
      << C("QryRTT100", 3), C("QryRTT10", 5), C("ValOk", 6) >>,
      << C("Mismatch", 3), C("GlueFetchv4", 1) >> }

ThreadModel == [TasksRunning |-> 8, WorkerThreads |-> 16]

ViewV2Doc(name, resstat) ==
    [Name |-> name, Cache |-> << C("A", 7), C("NS", 2) >>,
     Rdtype |-> << C("AAAA", 9) >>, Resstat |-> resstat]

ViewListsV2 ==
    UNION { { [i \in 1..n |-> ViewV2Doc(ViewNames[i], r[i])] : r \in [1..n -> ResstatLists] }
            : n \in 0..MaxViews }

DocsV2 ==
    { [Bind |-> [Statistics |->
         [Server |-> [QueriesIn |-> [Rdtype |-> q], Requests |-> [Opcode |-> q],
                      NsStats |-> ns],
          Views |-> vs,
          Taskmgr |-> [ThreadModel |-> ThreadModel]]]]
      : q \in { <<>>, << C("A", 3), C("MX", 1) >> }, ns \in NsStatLists, vs \in ViewListsV2 }

ViewV3Doc(name, resstat) ==
    [Name |-> name, Cache |-> << C("A", 7) >>,
     Counters |-> << [Type |-> "resqtype", Counter |-> << C("AAAA", 9) >>],
                     [Type |-> "resstats", Counter |-> resstat] >>]

ResstatListsV3 ==
    { << C("QryRTT100", 3), C("QryRTT10", 5), C("QryRTT100+", 2), C("ValOk", 6) >>,
      << C("Lame", 1), C("QueryTimeout", 2), C("QryRTT10", 4), C("QryRTT1a", 4) >> }

ViewListsV3 ==
    UNION { { [i \in 1..n |-> ViewV3Doc(ViewNames[i], r[i])] : r \in [1..n -> ResstatListsV3] }
            : n \in 0..MaxViews }

ServerCountersV3Doc ==
    << [Type |-> "qtype", Counter |-> << C("A", 3) >>],
       [Type |-> "opcode", Counter |-> << C("QUERY", 4) >>],
       [Type |-> "nsstat", Counter |-> << C("QrySuccess", 10), C("QryAuthAns", 4),
                                          C("QryDropped", 2) >>],
       [Type |-> "zonestat", Counter |-> << C("NotifyOutv4", 1) >>] >>

\* A group's document: server counters with views, the task manager alone,
\* or a document with none of the elements the exporter reads.
DocsV3 ==
    { [Server |-> [Counters |-> ServerCountersV3Doc], Views |-> vs, Taskmgr |-> <<>>]
      : vs \in ViewListsV3 }
    \cup { [Server |-> [Counters |-> <<>>], Views |-> <<>>,
            Taskmgr |-> << [ThreadModel |-> ThreadModel] >>],
           [Server |-> [Counters |-> <<>>], Views |-> <<>>, Taskmgr |-> <<>>] }

\* HTTP status codes of the probe's response.
StatusCodes == {199, 200, 299, 300, 404, 499, 500, 503}

ProbeResponses ==
    { [kind |-> "neterr"] } \cup { [kind |-> "status", code |-> s] : s \in StatusCodes }

\* A stats fetch: a transport error, a body that is no XML, or a document.
FetchResponses(docs) ==
    { [kind |-> "neterr"], [kind |-> "malformed"] }
    \cup { [kind |-> "xml", doc |-> d] : d \in docs }

----------------------------------------------------------------------------
(* Exporter.Collect, one step per HTTP round trip.                         *)

Scrapes == {1, 2}

Up(status) == MustNewConstMetric(up, "GaugeValue", status, <<>>)

\* GetVersion taking every status below 400 that is not 1xx for a Gen3 answer.
GetVersionResult_Below400(r) ==
    IF r.kind = "neterr" THEN [version |-> "", err |-> TRUE]
    ELSE IF r.code >= 500 THEN [version |-> "", err |-> TRUE]
    ELSE IF r.code < 400 /\ r.code >= 200 THEN [version |-> "v3", err |-> FALSE]
    ELSE [version |-> "v2", err |-> FALSE]

\* GetVersion past the cache test: what it returns for the probe's response.
GetVersionResult(r) ==
    IF r.kind = "neterr" THEN [version |-> "", err |-> TRUE]
    ELSE IF r.code >= 500 THEN [version |-> "", err |-> TRUE]
    ELSE IF r.code < 300 /\ r.code >= 200 THEN [version |-> "v3", err |-> FALSE]
    ELSE [version |-> "v2", err |-> FALSE]

\* FetchV3's loop body with the failed group skipped instead of returned on.
FetchV3Step_SkipFailed(root, r) ==
    IF r.kind # "xml" THEN [root |-> root, err |-> FALSE]
    ELSE [root |-> UnmarshalV3(root, r.doc), err |-> FALSE]

\* FetchV3's loop body for one group, given the server's answer: Fetch's
\* error or Unmarshal's error returns, else the document joins the root.
FetchV3Step(root, r) ==
    IF r.kind # "xml" THEN [root |-> root, err |-> TRUE]
    ELSE [root |-> UnmarshalV3(root, r.doc), err |-> FALSE]

\* Collect's Gen2 branch with status set once the body is read, before it is
\* unmarshalled.
CollectV2_StatusBeforeUnmarshal(r) ==
    IF r.kind = "neterr" THEN [snap |-> <<>>, warns |-> 0, ch |-> << Up(0) >>]
    ELSE IF r.kind = "malformed" THEN [snap |-> <<>>, warns |-> 0, ch |-> << Up(1) >>]
    ELSE [snap |-> <<r.doc>>, warns |-> WarnsV2(r.doc), ch |-> UpdateV2(r.doc) \o << Up(1) >>]

\* Collect's Gen2 branch, FetchV2 included, given the server's answer; the
\* deferred send of up comes last.
CollectV2(r) ==
    IF r.kind # "xml" THEN [snap |-> <<>>, warns |-> 0, ch |-> << Up(0) >>]
    ELSE [snap |-> <<r.doc>>, warns |-> WarnsV2(r.doc), ch |-> UpdateV2(r.doc) \o << Up(1) >>]

\* Collect's Gen3 branch once FetchV3's loop is through: dedup, status = 1,
\* UpdateV3, the deferred send of up.
CollectV3(root) ==
    LET r == dedup(root)
    IN  [snap |-> <<r>>, warns |-> WarnsV3(r), ch |-> UpdateV3(r) \o << Up(1) >>]

CycleStart ==
    /\ pc = [c \in Scrapes |-> "idle"]
    /\ ver = [c \in Scrapes |-> ""]
    /\ gi = [c \in Scrapes |-> 0]
    /\ root3 = [c \in Scrapes |-> BindRootV3]
    /\ snap = [c \in Scrapes |-> <<>>]
    /\ reqs = [c \in Scrapes |-> <<>>]
    /\ resps = [c \in Scrapes |-> <<>>]
    /\ dedupRan = [c \in Scrapes |-> FALSE]
    /\ warns = [c \in Scrapes |-> 0]
    /\ ch = [c \in Scrapes |-> <<>>]

\* NewExporter: the version field is left empty.
NewExporter(uri, groups) ==
    /\ URI = uri
    /\ metrics = groups
    /\ version = ""
    /\ CycleStart

\* The registry calls Collect on goroutine c.
Collect(c) ==
    /\ c \in scrapers
    /\ pc[c] \in {"idle", "done"}
    /\ pc' = [pc EXCEPT ![c] = "GetVersion"]
    /\ ver' = [ver EXCEPT ![c] = ""]
    /\ gi' = [gi EXCEPT ![c] = 0]
    /\ root3' = [root3 EXCEPT ![c] = BindRootV3]
    /\ snap' = [snap EXCEPT ![c] = <<>>]
    /\ reqs' = [reqs EXCEPT ![c] = <<>>]
    /\ resps' = [resps EXCEPT ![c] = <<>>]
    /\ dedupRan' = [dedupRan EXCEPT ![c] = FALSE]
    /\ warns' = [warns EXCEPT ![c] = 0]
    /\ ch' = [ch EXCEPT ![c] = <<>>]
    /\ UNCHANGED <<version, URI, metrics, scrapers, histVars, uriVars>>

\* GetVersion storing the generation it detected in the version field.
GetVersionCache_Stored(v) == IF v.err THEN version ELSE v.version

\* The version field once GetVersion has returned v: GetVersion reads the
\* field and has no assignment to it, nor has any other function.
GetVersionCache(v) == version

\* Collect from GetVersion's return on: the error return, or the branch taken.
\* With no group configured FetchV3's loop is empty and the cycle ends here.
AfterGetVersion(c, v) ==
    /\ ver' = [ver EXCEPT ![c] = v.version]
    /\ IF v.err
       THEN /\ ch' = [ch EXCEPT ![c] = << Up(0) >>]
            /\ pc' = [pc EXCEPT ![c] = "done"]
            /\ UNCHANGED <<gi, snap, dedupRan, warns>>
       ELSE IF v.version = "v3" /\ metrics = <<>>
       THEN LET res == CollectV3(root3[c]) IN
            /\ snap' = [snap EXCEPT ![c] = res.snap]
            /\ warns' = [warns EXCEPT ![c] = res.warns]
            /\ ch' = [ch EXCEPT ![c] = res.ch]
            /\ dedupRan' = [dedupRan EXCEPT ![c] = TRUE]
            /\ pc' = [pc EXCEPT ![c] = "done"]
            /\ UNCHANGED gi
       ELSE IF v.version = "v3"
       THEN /\ pc' = [pc EXCEPT ![c] = "FetchV3"]
            /\ gi' = [gi EXCEPT ![c] = 1]
            /\ UNCHANGED <<snap, dedupRan, warns, ch>>
       ELSE /\ pc' = [pc EXCEPT ![c] = "FetchV2"]
            /\ UNCHANGED <<gi, snap, dedupRan, warns, ch>>

\* GetVersion: the cached generation if there is one, else the probe GET of
\* the status group.  The read of e.version is unsynchronized; with no write
\* to the field anywhere, concurrent cycles all read the value NewExporter left.
GetVersion(c) ==
    /\ pc[c] = "GetVersion"
    /\ IF version # ""
       THEN /\ AfterGetVersion(c, [version |-> version, err |-> FALSE])
            /\ UNCHANGED <<version, reqs, resps>>
       ELSE \E r \in ProbeResponses :
            /\ reqs' = [reqs EXCEPT ![c] = Append(@, GetV3URI(URI, "status"))]
            /\ resps' = [resps EXCEPT ![c] = Append(@, r)]
            /\ version' = GetVersionCache(GetVersionResult(r))
            /\ AfterGetVersion(c, GetVersionResult(r))
    /\ UNCHANGED <<URI, metrics, scrapers, root3, histVars, uriVars>>

\* One turn of FetchV3's loop: the GET of group e.metrics[gi] and its
\* unmarshalling; after the last group, the rest of Collect.  The server
\* answers with an error or with one of docs.
FetchV3Round(c, docs) ==
    /\ pc[c] = "FetchV3"
    /\ \E r \in FetchResponses(docs) :
       LET step == FetchV3Step(root3[c], r) IN
       /\ reqs' = [reqs EXCEPT ![c] = Append(@, GetV3URI(URI, metrics[gi[c]]))]
       /\ resps' = [resps EXCEPT ![c] = Append(@, [kind |-> r.kind])]
       /\ root3' = [root3 EXCEPT ![c] = step.root]
       /\ IF step.err
          THEN /\ ch' = [ch EXCEPT ![c] = << Up(0) >>]
               /\ pc' = [pc EXCEPT ![c] = "done"]
               /\ UNCHANGED <<gi, snap, dedupRan, warns>>
          ELSE IF gi[c] < Len(metrics)
          THEN /\ gi' = [gi EXCEPT ![c] = @ + 1]
               /\ UNCHANGED <<pc, snap, dedupRan, warns, ch>>
          ELSE LET res == CollectV3(step.root) IN
               /\ snap' = [snap EXCEPT ![c] = res.snap]
               /\ warns' = [warns EXCEPT ![c] = res.warns]
               /\ ch' = [ch EXCEPT ![c] = res.ch]
               /\ dedupRan' = [dedupRan EXCEPT ![c] = TRUE]
               /\ pc' = [pc EXCEPT ![c] = "done"]
               /\ UNCHANGED gi
    /\ UNCHANGED <<version, URI, metrics, scrapers, ver, histVars, uriVars>>

FetchV3(c) == FetchV3Round(c, DocsV3)

\* FetchV2 and the rest of Collect's Gen2 branch: one GET of the base URI.
\* The server answers with an error or with one of docs.
FetchV2Round(c, docs) ==
    /\ pc[c] = "FetchV2"
    /\ \E r \in FetchResponses(docs) :
       /\ reqs' = [reqs EXCEPT ![c] = Append(@, URI)]
       /\ resps' = [resps EXCEPT ![c] = Append(@, [kind |-> r.kind])]
       /\ pc' = [pc EXCEPT ![c] = "done"]
       /\ LET res == CollectV2(r) IN
          /\ snap' = [snap EXCEPT ![c] = res.snap]
          /\ warns' = [warns EXCEPT ![c] = res.warns]
          /\ ch' = [ch EXCEPT ![c] = res.ch]
    /\ UNCHANGED <<version, URI, metrics, scrapers, ver, gi, root3, dedupRan,
                   histVars, uriVars>>

FetchV2(c) == FetchV2Round(c, DocsV2)

----------------------------------------------------------------------------
(* The scrape cycles of one exporter.                                      *)

\* The exporters tried: base URI and metric groups as main hands them over.
Exporters ==
    { <<"http://localhost:8053/", <<>> >>,
      <<"http://localhost:8053", <<"server">> >>,
      <<"http://localhost:8053/", <<"server", "tasks">> >>,
      <<"http://localhost:8053", <<"server", "zones", "tasks">> >> }

HistIdle == hstats = <<>> /\ hpos = 0 /\ h2 = HistStart /\ h3 = <<>>

UriIdle == ubase = "" /\ ugroup = "" /\ ures = <<>>

Init ==
    /\ \E e \in Exporters : NewExporter(e[1], e[2])
    /\ scrapers = {1}
    /\ HistIdle
    /\ UriIdle

Next == \E c \in Scrapes : Collect(c) \/ GetVersion(c) \/ FetchV3(c) \/ FetchV2(c)

Spec == Init /\ [][Next]_vars

----------------------------------------------------------------------------
(* Scrape cycles running concurrently on one exporter: the registry calls   *)
(* Collect from a goroutine per scrape, and the cycles share the Exporter.  *)
(* The server's documents are few here; the cycles differ in the probe's    *)
(* answer and in where they stand.                                          *)

ConcExporters ==
    { <<"http://localhost:8053/", <<>> >>,
      <<"http://localhost:8053", <<"status", "tasks">> >> }

ConcDocsV2 ==
    { [Bind |-> [Statistics |->
         [Server |-> [QueriesIn |-> [Rdtype |-> << C("A", 3), C("MX", 1) >>],
                      Requests |-> [Opcode |-> <<>>],
                      NsStats |-> << C("QrySuccess", 10) >>],
          Views |-> <<>>,
          Taskmgr |-> [ThreadModel |-> ThreadModel]]]] }

ConcDocsV3 ==
    { [Server |-> [Counters |-> ServerCountersV3Doc], Views |-> <<>>, Taskmgr |-> <<>>],
      [Server |-> [Counters |-> <<>>], Views |-> <<>>,
       Taskmgr |-> << [ThreadModel |-> ThreadModel] >>] }

InitConc ==
    /\ \E e \in ConcExporters : NewExporter(e[1], e[2])
    /\ scrapers = Scrapes
    /\ HistIdle
    /\ UriIdle

NextConc ==
    \E c \in Scrapes :
        Collect(c) \/ GetVersion(c) \/ FetchV3Round(c, ConcDocsV3)
                   \/ FetchV2Round(c, ConcDocsV2)

SpecConc == InitConc /\ [][NextConc]_vars

----------------------------------------------------------------------------
(* The histogram builders on counter lists of their own.                   *)

MaxHistLen == 3

HistCounters ==
    { C("QryRTT10", 5), C("QryRTT10", 3), C("QryRTT100", 3), C("QryRTT010", 2),
      C("QryRTT100+", 2), C("QryRTT1600+", 1), C("QryRTT1a", 4), C("Lame", 7) }

HistLists == UNION { [1..n -> HistCounters] : n \in 0..MaxHistLen }

\* One turn of histogramV2's loop.
HistogramV2Loop ==
    /\ hpos < Len(hstats)
    /\ h2.err = ""
    /\ h2' = histogramV2Step(h2, hstats[hpos + 1])
    /\ hpos' = hpos + 1
    /\ UNCHANGED <<hstats, h3, cycleVars, uriVars>>

\* A call of histogramV3.
HistogramV3Call ==
    /\ h3 = <<>>
    /\ h3' = << histogramV3(hstats) >>
    /\ UNCHANGED <<hstats, hpos, h2, cycleVars, uriVars>>

InitHist ==
    /\ NewExporter("http://localhost:8053/", <<"server">>)
    /\ scrapers = {}
    /\ hstats \in HistLists
    /\ hpos = 0 /\ h2 = HistStart /\ h3 = <<>>
    /\ UriIdle

NextHist == HistogramV2Loop \/ HistogramV3Call

SpecHist == InitHist /\ [][NextHist]_vars

----------------------------------------------------------------------------
(* GetV3URI on base URIs of its own.                                       *)

MaxURILen == 3

URIAlphabet == {"h", ":", "/"}

RECURSIVE Strings(_)
Strings(n) ==
    IF n = 0 THEN {""}
    ELSE LET S == Strings(n - 1) IN S \cup {s \o a : s \in S, a \in URIAlphabet}

\* GetV3URI for the base as given and for the base with a separator added.
CallGetV3URI ==
    /\ ures = <<>>
    /\ ures' = << GetV3URI(ubase, ugroup), GetV3URI(ubase \o "/", ugroup) >>
    /\ UNCHANGED <<ubase, ugroup, cycleVars, histVars>>

InitURI ==
    /\ NewExporter("http://localhost:8053/", <<"server">>)
    /\ scrapers = {}
    /\ HistIdle
    /\ ubase \in Strings(MaxURILen) \ {""}
    /\ ugroup \in {"status", "server", "", "a/b"}
    /\ ures = <<>>

NextURI == CallGetV3URI

SpecURI == InitURI /\ [][NextURI]_vars

----------------------------------------------------------------------------
(* What a finished cycle shows, read off the server's answers.             *)

Done(c) == pc[c] = "done"

\* The probe got no answer, or an answer with a status of 500 or more.
DetectionFailed(c) ==
    /\ Len(resps[c]) >= 1
    /\ \/ resps[c][1].kind = "neterr"
       \/ resps[c][1].kind = "status" /\ resps[c][1].code >= 500

\* The stats fetches and what they answered: positions 2.. of the cycle.
FetchFailed(c) == \E i \in 2..Len(resps[c]) : resps[c][i].kind = "neterr"

UnmarshalFailed(c) == \E i \in 2..Len(resps[c]) : resps[c][i].kind = "malformed"

\* The up gauges on the channel, in order.
UpValues(c) ==
    LET one(m) == IF m.desc = up THEN << m.value >> ELSE <<>>
    IN  Range(one, ch[c])

\* C1: a finished scrape cycle has sent up exactly once, as the last metric,
\* with value 0 exactly when version detection, a stats fetch or the XML
\* unmarshalling failed and value 1 in every other case, whether or not a
\* histogram failed to parse for some view.
C1_UpIsZeroExactlyOnFatalFailure ==
    \A c \in Scrapes :
        Done(c) =>
            /\ ch[c] # <<>>
            /\ ch[c][Len(ch[c])].desc = up
            /\ UpValues(c) =
                  IF DetectionFailed(c) \/ FetchFailed(c) \/ UnmarshalFailed(c)
                  THEN << 0 >> ELSE << 1 >>

\* A cycle that logged a histogram parse warning and finished with up = 1.
C1_Witness ==
    \E c \in Scrapes : Done(c) /\ warns[c] > 0 /\ UpValues(c) = << 1 >>

\* C2: for every status code of the probe's response, GetVersion returns
\* "v3" for 200 <= status < 300, an error and no generation for status >= 500
\* (Collect then ends the cycle with up = 0 and no stats fetch), and "v2" for
\* every other status.
C2_GetVersionByStatus ==
    \A c \in Scrapes :
        (Len(resps[c]) >= 1 /\ resps[c][1].kind = "status") =>
            LET status == resps[c][1].code IN
            IF status >= 200 /\ status < 300 THEN ver[c] = "v3"
            ELSE IF status >= 500
            THEN ver[c] = "" /\ Done(c) /\ Len(reqs[c]) = 1 /\ ch[c] = << Up(0) >>
            ELSE ver[c] = "v2" /\ pc[c] \in {"FetchV2", "done"}

\* A probe answered 300, one past the Gen3 range, taken for Gen2.
C2_Witness ==
    \E c \in Scrapes :
        /\ Len(resps[c]) >= 1 /\ resps[c][1].kind = "status"
        /\ resps[c][1].code = 300 /\ ver[c] = "v2"

\* The base URI without one trailing separator.
TrimSlash(u) == IF HasSuffix(u, "/") THEN SubSeq(u, 1, Len(u) - 1) ELSE u

\* C3: in a Gen3 cycle the groups are requested one at a time in list order
\* (request i+1 is for group i, and each request is answered before the
\* next is made); a group whose fetch or unmarshal fails is the last one
\* requested, dedup has not run, and the cycle has sent up = 0 and nothing
\* else.
C3_FetchV3StopsAtFirstFailure ==
    \A c \in Scrapes :
        ver[c] = "v3" =>
            /\ Len(reqs[c]) = Len(resps[c])
            /\ Len(reqs[c]) <= 1 + Len(metrics)
            /\ \A i \in 2..Len(reqs[c]) :
                  /\ reqs[c][i] = TrimSlash(URI) \o "/xml/v3/" \o metrics[i - 1]
                  /\ resps[c][i].kind # "xml" =>
                        /\ i = Len(reqs[c])
                        /\ Done(c)
                        /\ ~dedupRan[c]
                        /\ snap[c] = <<>>
                        /\ ch[c] = << Up(0) >>
            /\ dedupRan[c] => Len(reqs[c]) = 1 + Len(metrics)

\* The second of three groups failed after the first was accumulated: the
\* third was never requested and only up = 0 was sent.
C3_Witness ==
    \E c \in Scrapes :
        /\ ver[c] = "v3" /\ Len(metrics) = 3 /\ Done(c)
        /\ Len(resps[c]) = 3
        /\ resps[c][2].kind = "xml" /\ resps[c][3].kind = "malformed"
        /\ root3[c].Views # <<>>
        /\ ch[c] = << Up(0) >>

----------------------------------------------------------------------------
(* The histogram builders against what the design says of them.            *)

IsRTT(s) == HasPrefix(s.Name, qryRTT)

\* The bound a bucket name stands for, in seconds: +Inf for a name ending in
\* "+", else the milliseconds after the prefix over 1000.
BoundOf(s) ==
    IF HasSuffix(s.Name, "+") THEN Inf
    ELSE << ParseFloat(TrimPrefix(s.Name, qryRTT))[1], 1000 >>

Parses(s) == HasSuffix(s.Name, "+") \/ ParseFloatOK(TrimPrefix(s.Name, qryRTT))

\* The sum of the counts of the RTT-prefixed counters among stats[1..n].
RECURSIVE SumRTT(_, _)
SumRTT(stats, n) ==
    IF n = 0 THEN 0
    ELSE SumRTT(stats, n - 1) + (IF IsRTT(stats[n]) THEN stats[n].Counter ELSE 0)

ExampleV2 == << C("QryRTT10", 5), C("QryRTT100", 3), C("QryRTT100+", 2) >>

Permute(s, p) == [i \in 1..Len(s) |-> s[p[i]]]

SameHistogram(a, b) == a.buckets = b.buckets /\ a.count = b.count

\* C5 as claimed: for any list of RTT-prefixed counters, two of which may
\* carry the same bucket name, every permutation of the list gives
\* histogramV3 the same bucket map and the same total count.
C5_AnyPermutationSameHistogram ==
    (h3 # <<>> /\ \A i \in 1..Len(hstats) : IsRTT(hstats[i]) /\ Parses(hstats[i])) =>
        \A p \in Permutations(1..Len(hstats)) :
            SameHistogram(histogramV3(Permute(hstats, p)), h3[1])

DistinctBounds(stats) ==
    \A i, j \in 1..Len(stats) :
        (i # j /\ IsRTT(stats[i]) /\ IsRTT(stats[j])) => BoundOf(stats[i]) # BoundOf(stats[j])

\* C5, amended: for any list whose RTT-prefixed counters all parse and stand
\* for pairwise distinct bounds, every permutation of the list gives
\* histogramV3 the same bucket map and the same total count.
C5_PermutationSameHistogramDistinctBounds ==
    (/\ h3 # <<>>
     /\ \A i \in 1..Len(hstats) : IsRTT(hstats[i]) => Parses(hstats[i])
     /\ DistinctBounds(hstats)) =>
        \A p \in Permutations(1..Len(hstats)) :
            SameHistogram(histogramV3(Permute(hstats, p)), h3[1])

\* Three buckets of distinct bounds given out of order, and the result.
C5_Witness ==
    /\ h3 # <<>>
    /\ hstats = << C("QryRTT100+", 2), C("QryRTT100", 3), C("QryRTT10", 5) >>
    /\ h3[1].buckets = (<<10, 1000>> :> 5) @@ (<<100, 1000>> :> 8) @@ (Inf :> 10)
    /\ h3[1].count = 10

----------------------------------------------------------------------------
(* The metrics of a finished cycle against the snapshot they came from.    *)

\* The metrics on the channel, as a set.
Sent(c) == {ch[c][i] : i \in 1..Len(ch[c])}

Histograms(c) == {m \in Sent(c) : m.valueType = "HistogramValue"}

\* Read in ascending order of bound, the cumulative counts never decrease.
NonDecreasing(buckets) ==
    \A a, b \in DOMAIN buckets : Float64Less(a, b) => buckets[a] <= buckets[b]

\* The total is the count of the bucket with the largest bound.
TotalIsLargestBucket(h) ==
    \A a \in DOMAIN h.buckets :
        (\A b \in DOMAIN h.buckets : ~Float64Less(a, b)) => h.count = h.buckets[a]

\* C6: every histogram a scrape cycle sends, from histogramV2 or from
\* histogramV3, has cumulative counts that do not decrease along ascending
\* bounds, and a total equal to the count of its largest-bound bucket.
C6_SentHistogramsAreCumulative ==
    \A c \in Scrapes :
        \A m \in Histograms(c) :
            /\ NonDecreasing(m.buckets)
            /\ TotalIsLargestBucket([buckets |-> m.buckets, count |-> m.value])

HasSnapshot(c) == Done(c) /\ snap[c] # <<>>

\* The views of the snapshot, each with its resolver-operation counters and
\* outgoing-query counters, whichever the generation.
SnapViews(c) ==
    LET root == snap[c][1]
        of(v, ty) == LET sel(g) == IF g.Type = ty THEN g.Counter ELSE <<>>
                     IN  Range(sel, v.Counters)
        v3(v) == << [Name |-> v.Name, Cache |-> v.Cache,
                     Rdtype |-> of(v, "resqtype"), Resstat |-> of(v, "resstats"),
                     hasResstat |-> \E i \in 1..Len(v.Counters) :
                                        v.Counters[i].Type = "resstats"] >>
        v2(v) == << [Name |-> v.Name, Cache |-> v.Cache, Rdtype |-> v.Rdtype,
                     Resstat |-> v.Resstat, hasResstat |-> TRUE] >>
    IN  IF ver[c] = "v3" THEN Range(v3, root.Views)
        ELSE Range(v2, root.Bind.Statistics.Views)

SnapThreadModel(c) ==
    IF ver[c] = "v3" THEN snap[c][1].Taskmgr.ThreadModel
    ELSE snap[c][1].Bind.Statistics.Taskmgr.ThreadModel

\* Some RTT bucket name of the view has a suffix that is no number.
BadRTT(v) == \E i \in 1..Len(v.Resstat) : IsRTT(v.Resstat[i]) /\ ~Parses(v.Resstat[i])

DurationOf(c, v) ==
    {m \in Histograms(c) : m.desc = resolverQueryDuration /\ m.labelValues = <<v.Name>>}

Gauge(desc, value, labelValues) ==
    [desc |-> desc, valueType |-> "GaugeValue", value |-> value,
     buckets |-> <<>>, labelValues |-> labelValues]

Counter(desc, value, labelValues) ==
    [desc |-> desc, valueType |-> "CounterValue", value |-> value,
     buckets |-> <<>>, labelValues |-> labelValues]

\* C7: in a cycle of either generation, a view with an RTT bucket name whose
\* suffix does not parse gets no query-duration histogram, every other view
\* with resolver statistics gets its one, and every view, that one included,
\* gets its cache, outgoing-query and resolver-operation series; tasks_running
\* and worker_threads are sent as well.
C7_ParseErrorDropsOnlyThatHistogram ==
    \A c \in Scrapes :
        HasSnapshot(c) =>
            LET views == SnapViews(c) IN
            /\ \A k \in 1..Len(views) :
                  LET v == views[k] IN
                  /\ BadRTT(v) => DurationOf(c, v) = {}
                  /\ (~BadRTT(v) /\ v.hasResstat) => Cardinality(DurationOf(c, v)) = 1
                  /\ \A i \in 1..Len(v.Cache) :
                        Gauge(resolverCache, v.Cache[i].Counter,
                              <<v.Name, v.Cache[i].Name>>) \in Sent(c)
                  /\ \A i \in 1..Len(v.Rdtype) :
                        Counter(resolverQueries, v.Rdtype[i].Counter,
                                <<v.Name, v.Rdtype[i].Name>>) \in Sent(c)
                  /\ \A i \in 1..Len(v.Resstat) :
                        LET s == v.Resstat[i] IN
                        /\ s.Name \in DOMAIN resolverMetricStats =>
                              Counter(resolverMetricStats[s.Name], s.Counter,
                                      <<v.Name>>) \in Sent(c)
                        /\ s.Name \in DOMAIN resolverLabelStats =>
                              Counter(resolverLabelStats[s.Name], s.Counter,
                                      <<v.Name, s.Name>>) \in Sent(c)
            /\ Gauge(tasksRunning, SnapThreadModel(c).TasksRunning, <<>>) \in Sent(c)
            /\ Gauge(workerThreads, SnapThreadModel(c).WorkerThreads, <<>>) \in Sent(c)
            /\ warns[c] = Cardinality({k \in 1..Len(views) : BadRTT(views[k])})

\* A Gen2 snapshot whose first view has a bad bucket name and whose second
\* has none: one histogram, for the second view, and one warning.
C7_Witness ==
    \E c \in Scrapes :
        /\ HasSnapshot(c) /\ ver[c] = "v2"
        /\ Len(SnapViews(c)) = 2
        /\ BadRTT(SnapViews(c)[1]) /\ ~BadRTT(SnapViews(c)[2])
        /\ Cardinality(Histograms(c)) = 1
        /\ warns[c] = 1

\* C8: every metric a scrape cycle sends has a descriptor that Describe sends.
C8_SentDescriptorsAreDescribed ==
    \A c \in Scrapes : \A m \in Sent(c) : m.desc \in Describe

\* The name-server operational counters of the snapshot, in order.
SnapNsStats(c) ==
    LET sel(g) == IF g.Type = "nsstat" THEN g.Counter ELSE <<>>
    IN  IF ver[c] = "v3" THEN Range(sel, snap[c][1].Server.Counters)
        ELSE snap[c][1].Bind.Statistics.Server.NsStats

\* The series sent on the two descriptors of serverLabelStats, in order.
NsStatSeries(c) ==
    LET one(m) == IF m.desc \in {serverQueryErrors, serverReponses} THEN <<m>> ELSE <<>>
    IN  Range(one, ch[c])

\* The counters whose name is a key of serverLabelStats, in order.
Mapped(counters) ==
    LET one(s) == IF s.Name \in DOMAIN serverLabelStats THEN <<s>> ELSE <<>>
    IN  Range(one, counters)

\* C9: the series a cycle sends on the descriptors of serverLabelStats are,
\* one for one and in order, the snapshot's name-server operational counters
\* whose name is a key of that table: each on the table's descriptor, with
\* the counter's value, labelled with the name less its "Qry" prefix.  A
\* counter of any other name adds no series, and the cycle still ends with
\* up = 1.  QrySuccess = 10 is sent as bind_responses_total{result="Success"} 10.
C9_NsStatMapping ==
    \A c \in Scrapes :
        HasSnapshot(c) =>
            LET series == NsStatSeries(c)
                mapped == Mapped(SnapNsStats(c))
            IN  /\ Len(series) = Len(mapped)
                /\ \A k \in 1..Len(mapped) :
                      /\ series[k].desc = serverLabelStats[mapped[k].Name]
                      /\ series[k].valueType = "CounterValue"
                      /\ series[k].value = mapped[k].Counter
                      /\ Len(series[k].labelValues) = 1
                      /\ "Qry" \o series[k].labelValues[1] = mapped[k].Name
                /\ (\E k \in 1..Len(mapped) : mapped[k] = C("QrySuccess", 10)) =>
                      [desc |-> [fqName |-> "bind_responses_total",
                                 variableLabels |-> <<"result">>],
                       valueType |-> "CounterValue", value |-> 10,
                       buckets |-> <<>>, labelValues |-> <<"Success">>] \in Sent(c)
                /\ UpValues(c) = << 1 >>

\* A Gen3 snapshot with QrySuccess, QryDropped and a name of no table: two
\* series.
C9_Witness ==
    \E c \in Scrapes :
        /\ HasSnapshot(c) /\ ver[c] = "v3"
        /\ Len(SnapNsStats(c)) = 3
        /\ \E k \in 1..3 : SnapNsStats(c)[k].Name = "QryAuthAns"
        /\ Len(NsStatSeries(c)) = 2

\* C10: for a non-empty base URI u that does not end with a separator and
\* any group g, GetV3URI gives for u and for u + "/" the same request URI,
\* u + "/xml/v3/" + g.
C10_GetV3URIOneSeparator ==
    (ures # <<>> /\ ubase # "" /\ ~HasSuffix(ubase, "/")) =>
        /\ ures[1] = ures[2]
        /\ ures[1] = ubase \o "/xml/v3/" \o ugroup

C10_Witness ==
    /\ ures = << "h:h/xml/v3/status", "h:h/xml/v3/status" >>
    /\ ubase = "h:h" /\ ugroup = "status"

----------------------------------------------------------------------------
(* The version field over concurrent scrape cycles.                        *)

\* The request GetVersion makes.
ProbeURI == TrimSlash(URI) \o "/xml/v3/status"

\* The generation a probe's answer stands for; none when detection fails.
ProbeGeneration(r) ==
    IF r.kind = "status" /\ r.code \in 200..299 THEN "v3"
    ELSE IF r.kind = "status" /\ r.code < 500 THEN "v2"
    ELSE ""

\* What one goroutine's cycle holds.
CycleOf(c) == <<pc[c], ver[c], gi[c], root3[c], snap[c], reqs[c], resps[c], ch[c]>>

\* A cycle makes no request before its probe; past GetVersion its first
\* request is the probe, its generation is the one its own probe's answer
\* stands for, and every later request is a stats fetch of that generation.
ProbesOnceForItself(c) ==
    /\ pc[c] \in {"idle", "GetVersion"} => reqs[c] = <<>> /\ ver[c] = ""
    /\ pc[c] \in {"FetchV3", "FetchV2", "done"} =>
          /\ Len(reqs[c]) >= 1 /\ Len(resps[c]) = Len(reqs[c])
          /\ reqs[c][1] = ProbeURI
          /\ resps[c][1] \in ProbeResponses
          /\ ver[c] = ProbeGeneration(resps[c][1])
          /\ pc[c] = "FetchV3" => ver[c] = "v3"
          /\ pc[c] = "FetchV2" => ver[c] = "v2" /\ Len(reqs[c]) = 1
          /\ ver[c] = "" => Len(reqs[c]) = 1
          /\ \A i \in 2..Len(reqs[c]) :
                IF ver[c] = "v3"
                THEN /\ i - 1 <= Len(metrics)
                     /\ reqs[c][i] = TrimSlash(URI) \o "/xml/v3/" \o metrics[i - 1]
                ELSE i = 2 /\ reqs[c][i] = URI

\* A step leaves the version field as it was, touches one cycle at most, and
\* a step out of GetVersion makes the cycle's one probe request.
VersionNeverWritten ==
    /\ version' = version
    /\ \A c, d \in Scrapes : (c # d /\ CycleOf(c)' # CycleOf(c)) => CycleOf(d)' = CycleOf(d)
    /\ \A c \in Scrapes :
          (pc[c] = "GetVersion" /\ pc'[c] # "GetVersion") =>
              /\ reqs[c] = <<>> /\ reqs'[c] = << ProbeURI >>
              /\ ver'[c] = ProbeGeneration(resps'[c][1])

\* C11: over any interleaving of scrape cycles on one exporter the version
\* field is never written and stays empty; every cycle makes exactly one
\* probe request, to the status path, before any stats fetch, and the
\* generation a cycle uses is the one its own probe's answer stands for,
\* whatever an earlier or a concurrent cycle detected.
C11_VersionNeverCached ==
    /\ [](version = "" /\ \A c \in Scrapes : ProbesOnceForItself(c))
    /\ [][VersionNeverWritten]_vars

\* One cycle has finished as Gen2 with a snapshot while the other, probed
\* as Gen3, is between its two group fetches, the first one of the status
\* group.
C11_Witness ==
    /\ version = ""
    /\ pc[1] = "FetchV3" /\ ver[1] = "v3" /\ gi[1] = 2
    /\ reqs[1] = << ProbeURI, ProbeURI >>
    /\ pc[2] = "done" /\ ver[2] = "v2" /\ snap[2] # <<>>
    /\ resps[1][1] # resps[2][1]

====
